---- MODULE Spec2Model ----
(***************************************************************************)
(* Billing and usage metering of the PhySO service.                        *)
(*                                                                         *)
(* The store is the SQLite database of PhySO-Service: the users table      *)
(* (balance), the models table (pricing tiers), the predictions table and  *)
(* the transactions table.  The handler create_prediction_sync is modelled *)
(* one repository call per step: every repository method opens its own     *)
(* connection and commits on its own, so no database transaction spans     *)
(* two calls of a handler and nothing in the code orders the calls of two  *)
(* requests: the handler is a coroutine that awaits the engine, and the    *)
(* ASGI application can be served by several workers over the one          *)
(* database file.  Handlers of different requests therefore interleave     *)
(* between any two repository calls.                                       *)
(*                                                                         *)
(* Money is counted in thousandths of a dollar (0.001 -> 1), so that the   *)
(* seeded prices 0.01 / 0.001 are the integers 10 / 1.  The rounding of    *)
(* the REAL columns is not modelled.                                       *)
(***************************************************************************)
EXTENDS Integers, Sequences, FiniteSets, TLC

\* ---------------------------------------------------------------- bounds
MaxRequests == 2
MaxEpochs == 5
MaxCalls == 2

\* ------------------------------------------------- seeded pricing tiers
\* initialize_db_sqlite.py physo_configs, in thousandths of a dollar
Config0Base == 10
Config0Epoch == 1
Config1Base == 20
Config1Epoch == 2
Config2Base == 30
Config2Epoch == 3

ModelIds == {1, 2, 3}

base_price(m) == CASE m = 1 -> Config0Base [] m = 2 -> Config1Base [] OTHER -> Config2Base

epoch_price(m) == CASE m = 1 -> Config0Epoch [] m = 2 -> Config1Epoch [] OTHER -> Config2Epoch

\* ----------------------------------------------------------- the domain
Requests == 1..MaxRequests

UserIds == {1, 2}

NoUser == 0

\* the api key of user u is the string "key-u", written u; 0 is a key no user has
ApiKeys == UserIds \cup {NoUser}

\* epochs is an unconstrained int of the request body (no ge=0 on the Field):
\* a negative count, MaxEpochs, and a count whose quote exceeds OneCost
EpochChoices == {0 - 2 * Config0Base, MaxEpochs, 2 * MaxEpochs}

\* PhySoService.calculate_cost
calculate_cost_Mut(base, epoch, epochs) == (base + epoch) * epochs

calculate_cost(base, epoch, epochs) == base + (epoch * epochs)

\* balances an account can hold before the first request: nothing, or exactly
\* the cost of one config0 request of MaxEpochs epochs
OneCost == calculate_cost(Config0Base, Config0Epoch, MaxEpochs)

InitBalances == {0, OneCost}

VARIABLES
    balance,          \* users.balance, by user id
    models_active,    \* models.is_active, by model id
    predictions,      \* the predictions table, row id = index
    transactions,     \* the transactions table, row id = index
    pc,               \* position of each request's handler
    local,            \* the handler's local variables of each request
    initial_balance,  \* history: users.balance before the first request
    response,         \* the response of the last GET request
    quote,            \* a caller of calculate_cost: its arguments, its results
    gave_up,          \* the requests whose client stopped waiting for the answer
    debit_order,      \* history: the predictions in the order of their debits
    created_at,       \* transactions.created_at, by row id
    history,          \* the rows the last listing of the transactions returned
    lookup,           \* a caller of the tier lookup: its request, its result
    provisioned,      \* initialize_sqlite_database has run
    users,            \* the bot: UserService.users, credits by telegram id
    threads,          \* the bot: position and locals of each thread in UserService
    credit_log,       \* the bot: the rows of credit_history.csv
    chat,             \* the bot: position and locals of each process_prediction
    lock,             \* the bot: the holder of UserService._lock
    service           \* the bot: the UserService instance and its initialization

\* the variables of the Telegram bot
bot == <<users, threads, credit_log, chat, lock, service>>

\* the variables no handler of the service reads or writes
others == <<gave_up, debit_order, created_at, history, lookup, provisioned,
            bot>>

\* the variables create_prediction_sync neither reads nor writes
outside == <<response, quote, others>>

vars == <<balance, models_active, predictions, transactions, pc, local,
          initial_balance, outside>>

store == <<balance, models_active, predictions, transactions>>

\* api_user, api_balance: the User object read at line 69 (its id, its balance);
\* user_id, epochs: request.user_id and request.epochs;
\* model_id, total_cost: the model of line 81 and the quote of line 86;
\* pred_id: pred.id; success, best_formula: physo_result['success'] and
\* physo_result['best_formula']; error: the rejection;
\* wrote_balance: history, whether update_balance of line 144 committed
NoLocal == [api_user |-> NoUser, api_balance |-> 0, user_id |-> NoUser,
            epochs |-> 0, model_id |-> 0,
            total_cost |-> 0, pred_id |-> 0, success |-> FALSE,
            best_formula |-> "None",
            error |-> "none", wrote_balance |-> FALSE]

\* no GET request has been answered yet
NoResponse == [endpoint |-> "none", api_user |-> NoUser, user_id |-> NoUser,
               status |-> "none", balance |-> 0, predictions |-> {},
               transactions |-> {}]

\* nobody has called calculate_cost outside the handler
NoQuote == [base |-> 0, epoch |-> 0, epochs |-> 0, calls |-> <<>>]

\* SQLiteUserRepository.get_by_api_key: the user whose api_key is key, or None
get_by_api_key(key) == IF key \in UserIds THEN key ELSE NoUser

\* the rows of SELECT * FROM models WHERE is_active = 1
ActiveModels == {m \in ModelIds : models_active[m]}

NoModel == 0

\* SQLiteModelRepository.get_active_model: ... WHERE is_active = 1 LIMIT 1, the
\* first active row of SQLite's scan of the table in rowid order, or None
get_active_model ==
    IF ActiveModels = {} THEN NoModel
    ELSE CHOOSE m \in ActiveModels : \A n \in ActiveModels : m <= n

\* The database after provisioning and any number of earlier requests: every
\* account holds a balance >= 0 (users.balance defaults to 0.0, the seeded
\* account holds 10.0); the seeded tiers are all active (INSERT ... is_active
\* = 1), or none is (the state line 82 of main_sync.py guards against).
\* nothing has happened outside the handlers: no client gave up, no listing
\* was asked for, no tier looked up, and the bot knows no user
NoHistory == [user_id |-> NoUser, rows |-> <<>>]
NoLookup == [run_config |-> "none", epochs |-> 0, model_id |-> 0,
             total_cost |-> 0, error |-> "none", done |-> FALSE]
\* no bot runs: no UserService was constructed
NoHolder == 0
NoService == [instance |-> FALSE, initialized |-> FALSE, loads |-> 0]
BotIdle ==
    /\ users = <<>>
    /\ threads = <<>>
    /\ credit_log = <<>>
    /\ chat = <<>>
    /\ lock = NoHolder
    /\ service = NoService

OthersIdle ==
    /\ gave_up = {}
    /\ debit_order = <<>>
    /\ created_at = <<>>
    /\ history = NoHistory
    /\ lookup = NoLookup
    /\ provisioned = TRUE
    /\ BotIdle

Init ==
    /\ balance \in [UserIds -> InitBalances]
    /\ initial_balance = balance
    /\ models_active \in {[m \in ModelIds |-> TRUE], [m \in ModelIds |-> FALSE]}
    /\ predictions = <<>>
    /\ transactions = <<>>
    /\ pc = [r \in Requests |-> "idle"]
    /\ local = [r \in Requests |-> NoLocal]
    /\ response = NoResponse
    /\ quote = NoQuote
    /\ OthersIdle

\* ------------------------------------------------------------ repositories
\* SQLitePredictionRepository.add: INSERT of the handler's entity; the new row
\* id is cursor.lastrowid
prediction_add(rows, row) == Append(rows, row)

\* SQLitePredictionRepository.update: UPDATE ... SET total_cost, status,
\* best_formula, ... WHERE id = ?, whatever the stored status is
prediction_update(rows, id, status, cost, formula) ==
    [rows EXCEPT ![id] = [@ EXCEPT !.status = status,
                                   !.total_cost = cost,
                                   !.best_formula = formula]]

\* SQLiteUserRepository.update_balance: UPDATE users SET balance = ? WHERE id = ?
update_balance_Mut(bal, user_id, new_balance) == [u \in DOMAIN bal |-> new_balance]

update_balance(bal, user_id, new_balance) == [bal EXCEPT ![user_id] = new_balance]

\* SQLiteTransactionRepository.add: INSERT INTO transactions
transaction_add_Mut(rows, row) == <<row>>

transaction_add(rows, row) == Append(rows, row)

\* line 136: pred.status = 'completed' if physo_result['success'] else 'failed'
settled_status_Mut(success) == IF success THEN "completed" ELSE "processing"

settled_status(success) == IF success THEN "completed" ELSE "failed"

\* physo_service.py line 224: the text _process_results returns in place of the
\* formula when reading the expression raised ('Не удалось получить формулу')
NoFormula == "formula not obtained"

\* PhySoService._process_results: the formula of the best expression, or the
\* text of line 224 when anything raised while it was read
process_results(results_raise) == IF results_raise THEN NoFormula ELSE "formula"

\* PhySoService.train: success=False and best_formula=None when anything raised
\* (lines 79-89), otherwise success=True with the formula of _process_results
\* (lines 61, 69-77)
train(raises, results_raise) ==
    IF raises THEN [success |-> FALSE, best_formula |-> "None"]
    ELSE [success |-> TRUE, best_formula |-> process_results(results_raise)]

\* ------------------------------------------------- create_prediction_sync
\* raise HTTPException(...) of lines 71, 74, 78, 83 and 89: the handler ends
\* before it has written anything
Reject_Mut(r, kind, user, claimed, bal, cost) ==
    /\ pc' = [pc EXCEPT ![r] = "rejected"]
    /\ local' = [local EXCEPT ![r] = [NoLocal EXCEPT !.error = kind]]
    /\ predictions' = Append(predictions,
            [user_id |-> user, model_id |-> NoModel, status |-> "processing",
             total_cost |-> "None", best_formula |-> "None"])
    /\ UNCHANGED <<balance, models_active, transactions, initial_balance, outside>>

Reject(r, kind, user, claimed, bal, cost) ==
    /\ UNCHANGED <<store, initial_balance, outside>>
    /\ pc' = [pc EXCEPT ![r] = "rejected"]
    /\ local' = [local EXCEPT ![r] = [NoLocal EXCEPT !.error = kind,
                                                     !.api_user = user,
                                                     !.user_id = claimed,
                                                     !.api_balance = bal,
                                                     !.total_cost = cost]]

\* lines 73, 252 and 268: api_user.id != user_id, the id the request claims
access_denied_Mut(api_user, user_id) == FALSE

access_denied(api_user, user_id) == api_user # user_id

\* the checks of lines 77 and 88 on the balance read at line 69
balance_ok_Mut(bal, cost) == bal > 0

balance_ok_Reversed(bal, cost) == bal > 0 /\ ~(cost < bal)

balance_ok(bal, cost) == bal > 0 /\ ~(bal < cost)

\* lines 68-92: resolve the key, compare the claimed id, check the balance,
\* take the active model, quote, compare the balance with the quote.
\* Requests are numbered in their order of arrival.
Authorize_Mut(r) ==
    /\ pc[r] = "idle"
    /\ \A q \in Requests : q < r => pc[q] # "idle"
    /\ \E key \in ApiKeys, uid \in UserIds, e \in EpochChoices :
        LET api_user == get_by_api_key(key) IN
        IF api_user = NoUser
        THEN Reject(r, "InvalidCredential", NoUser, uid, 0, 0)
        ELSE IF access_denied(api_user, uid)
        THEN Reject(r, "AccountMismatch", api_user, uid, 0, 0)
        ELSE IF get_active_model = NoModel
        THEN Reject(r, "NoTierAvailable", api_user, uid, balance[api_user], 0)
        ELSE IF balance[api_user] <= 0
        THEN Reject(r, "ZeroBalance", api_user, uid, balance[api_user], 0)
        ELSE LET m == get_active_model IN
            LET total_cost == calculate_cost(base_price(m), epoch_price(m), e) IN
            IF ~balance_ok(balance[api_user], total_cost)
            THEN Reject(r, "InsufficientBalance", api_user, uid,
                        balance[api_user], total_cost)
            ELSE /\ pc' = [pc EXCEPT ![r] = "authorized"]
                 /\ local' = [local EXCEPT ![r] =
                        [NoLocal EXCEPT !.api_user = api_user,
                                        !.api_balance = balance[api_user],
                                        !.user_id = uid, !.epochs = e,
                                        !.model_id = m, !.total_cost = total_cost]]
                 /\ UNCHANGED <<store, initial_balance, outside>>

Authorize(r) ==
    /\ pc[r] = "idle"
    /\ \A q \in Requests : q < r => pc[q] # "idle"
    /\ \E key \in ApiKeys, uid \in UserIds, e \in EpochChoices :
        LET api_user == get_by_api_key(key) IN
        IF api_user = NoUser
        THEN Reject(r, "InvalidCredential", NoUser, uid, 0, 0)
        ELSE IF access_denied(api_user, uid)
        THEN Reject(r, "AccountMismatch", api_user, uid, 0, 0)
        ELSE IF balance[api_user] <= 0
        THEN Reject(r, "ZeroBalance", api_user, uid, balance[api_user], 0)
        ELSE IF get_active_model = NoModel
        THEN Reject(r, "NoTierAvailable", api_user, uid, balance[api_user], 0)
        ELSE LET m == get_active_model IN
            LET total_cost == calculate_cost(base_price(m), epoch_price(m), e) IN
            IF ~balance_ok(balance[api_user], total_cost)
            THEN Reject(r, "InsufficientBalance", api_user, uid,
                        balance[api_user], total_cost)
            ELSE /\ pc' = [pc EXCEPT ![r] = "authorized"]
                 /\ local' = [local EXCEPT ![r] =
                        [NoLocal EXCEPT !.api_user = api_user,
                                        !.api_balance = balance[api_user],
                                        !.user_id = uid, !.epochs = e,
                                        !.model_id = m, !.total_cost = total_cost]]
                 /\ UNCHANGED <<store, initial_balance, outside>>

\* lines 95-108: the entity of the request, status="processing"; total_cost
\* and best_formula keep their default None
PredictionEntity_Mut(user_id, model_id) ==
    [user_id |-> user_id, model_id |-> model_id, status |-> "pending",
     total_cost |-> "None", best_formula |-> "None"]

PredictionEntity(user_id, model_id) ==
    [user_id |-> user_id, model_id |-> model_id, status |-> "processing",
     total_cost |-> "None", best_formula |-> "None"]

\* lines 94-109: the prediction row is inserted with status "processing"
Admit(r) ==
    /\ pc[r] = "authorized"
    /\ predictions' = prediction_add(predictions,
            PredictionEntity(local[r].api_user, local[r].model_id))
    /\ local' = [local EXCEPT ![r].pred_id = Len(predictions) + 1]
    /\ pc' = [pc EXCEPT ![r] = "admitted"]
    /\ UNCHANGED <<balance, models_active, transactions, initial_balance, outside>>

\* line 127: PhySoService.train returns success=True, or success=False when
\* anything inside it raised (its except Exception returns a failure value)
Train_Mut(r) ==
    /\ pc[r] = "admitted"
    /\ \E raises \in BOOLEAN, results_raise \in BOOLEAN :
        LET physo_result == train(raises, results_raise) IN
        local' = [local EXCEPT ![r].success = physo_result.success,
                               ![r].best_formula = physo_result.best_formula]
    /\ pc' = [pc EXCEPT ![r] = IF local'[r].success THEN "trained" ELSE "raised"]
    /\ UNCHANGED <<store, initial_balance, outside>>

Train(r) ==
    /\ pc[r] = "admitted"
    /\ \E raises \in BOOLEAN, results_raise \in BOOLEAN :
        LET physo_result == train(raises, results_raise) IN
        local' = [local EXCEPT ![r].success = physo_result.success,
                               ![r].best_formula = physo_result.best_formula]
    /\ pc' = [pc EXCEPT ![r] = "trained"]
    /\ UNCHANGED <<store, initial_balance, outside>>

\* lines 130-140: the result, the quoted cost and the status are written
UpdatePrediction_Mut(r) ==
    /\ pc[r] = "trained"
    /\ predictions' = prediction_update(predictions, local[r].pred_id,
            settled_status(local[r].success),
            calculate_cost(base_price(get_active_model),
                           epoch_price(get_active_model), local[r].epochs),
            local[r].best_formula)
    /\ pc' = [pc EXCEPT ![r] = "updated"]
    /\ UNCHANGED <<balance, models_active, transactions, local, initial_balance, outside>>

UpdatePrediction(r) ==
    /\ pc[r] = "trained"
    /\ predictions' = prediction_update(predictions, local[r].pred_id,
            settled_status(local[r].success), local[r].total_cost,
            local[r].best_formula)
    /\ pc' = [pc EXCEPT ![r] = "updated"]
    /\ UNCHANGED <<balance, models_active, transactions, local, initial_balance, outside>>

\* lines 142-144: new_balance = api_user.balance - total_cost, from the user
\* object read at line 69
UpdateBalanceWrite(r) ==
    /\ pc[r] = "updated"
    /\ balance' = update_balance(balance, local[r].api_user,
                                 local[r].api_balance - local[r].total_cost)
    /\ local' = [local EXCEPT ![r].wrote_balance = TRUE]
    /\ pc' = [pc EXCEPT ![r] = "debited"]
    /\ UNCHANGED <<models_active, predictions, transactions, initial_balance>>

UpdateBalance(r) == UpdateBalanceWrite(r) /\ UNCHANGED outside

\* line 150: amount=-total_cost
charge_amount_Mut(total_cost) == total_cost

charge_amount(total_cost) == 0 - total_cost

\* lines 146-160: the transaction is inserted and the response returned
AddTransaction(r) ==
    /\ pc[r] = "debited"
    /\ transactions' = transaction_add(transactions,
            [user_id |-> local[r].api_user,
             amount |-> charge_amount(local[r].total_cost),
             prediction_id |-> local[r].pred_id])
    /\ pc' = [pc EXCEPT ![r] = "returned"]
    /\ UNCHANGED <<balance, models_active, predictions, local, initial_balance, outside>>

Next ==
    \E r \in Requests :
        \/ Authorize(r)
        \/ Admit(r)
        \/ Train(r)
        \/ UpdatePrediction(r)
        \/ UpdateBalance(r)
        \/ AddTransaction(r)

Spec == Init /\ [][Next]_vars

\* The handler of an admitted request runs on: the engine call returns, and
\* each repository call that follows it is made and returns (persistence is
\* available).  Nothing makes a client send a request.
Proceeds(r) ==
    Train(r) \/ UpdatePrediction(r) \/ UpdateBalance(r) \/ AddTransaction(r)

\* Proceeds(r) seen on pc alone: r is past its admission and not at its end,
\* where a step of Proceeds(r) is always possible, and pc[r] moves; no other
\* step of Next moves pc[r] from there.
Running == {"admitted", "trained", "updated", "debited"}
Advances(r) ==
    /\ pc[r] \in Running
    /\ \E to \in {"trained", "updated", "debited", "returned"} :
          pc' = [pc EXCEPT ![r] = to]

SpecLive == Spec /\ \A r \in Requests : WF_pc(Advances(r))

\* ------------------------------------------------------ persistence faults
\* A repository call raises (sqlite3.OperationalError: the database is locked,
\* the disk is full, ...): its statement is not committed, and the exception
\* reaches `except Exception` of line 162.
UpdatePredictionFails(r) ==
    /\ pc[r] = "trained"
    /\ pc' = [pc EXCEPT ![r] = "except"]
    /\ UNCHANGED <<store, local, initial_balance, outside>>

UpdateBalanceFails(r) ==
    /\ pc[r] = "updated"
    /\ pc' = [pc EXCEPT ![r] = "except"]
    /\ UNCHANGED <<store, local, initial_balance, outside>>

AddTransactionFails(r) ==
    /\ pc[r] = "debited"
    /\ pc' = [pc EXCEPT ![r] = "except"]
    /\ UNCHANGED <<store, local, initial_balance, outside>>

\* lines 162-170: pred.status = 'failed', best_formula = "Error: ...", the
\* row is updated (total_cost as set at line 135) and HTTP 500 is raised
ExceptUpdate_Mut(r) ==
    /\ pc[r] = "except"
    /\ predictions' = prediction_update(predictions, local[r].pred_id,
            "failed", local[r].total_cost, "Error")
    /\ pc' = [pc EXCEPT ![r] = "updated"]
    /\ UNCHANGED <<balance, models_active, transactions, local, initial_balance, outside>>

ExceptUpdate(r) ==
    /\ pc[r] = "except"
    /\ predictions' = prediction_update(predictions, local[r].pred_id,
            "failed", local[r].total_cost, "Error")
    /\ pc' = [pc EXCEPT ![r] = "raised"]
    /\ UNCHANGED <<balance, models_active, transactions, local, initial_balance, outside>>

\* the update of line 167 raises as well: the exception leaves the handler
ExceptUpdateFails(r) ==
    /\ pc[r] = "except"
    /\ pc' = [pc EXCEPT ![r] = "raised"]
    /\ UNCHANGED <<store, local, initial_balance, outside>>

Fault ==
    \E r \in Requests :
        \/ UpdatePredictionFails(r)
        \/ UpdateBalanceFails(r)
        \/ AddTransactionFails(r)
        \/ ExceptUpdate(r)
        \/ ExceptUpdateFails(r)

NextFault == Next \/ Fault

SpecFault == Init /\ [][NextFault]_vars

\* ------------------------------------------------------- tiers that change
\* The operator of the service switches a pricing tier on or off (the column
\* models.is_active, `Whether the configuration is currently available for
\* use`): the tier get_active_model returns, and with it the prices of a
\* quote, changes while handlers run.  Switchable: the tiers the operator
\* switches, here config0, the first the lookup returns.
Switchable == {1}

SetActive ==
    /\ \E m \in Switchable :
        models_active' = [models_active EXCEPT ![m] = ~models_active[m]]
    /\ UNCHANGED <<balance, predictions, transactions, pc, local,
                   initial_balance, outside>>

NextTier == Next \/ SetActive

SpecTier == Init /\ [][NextTier]_vars

\* ------------------------------------------------- calculate_cost alone
\* the arguments a caller passes: the prices of a seeded tier, or none, and a
\* count of epochs of either sign
QuoteBases == {0, Config0Base, Config1Base, Config2Base}

QuoteEpochPrices == {0, Config0Epoch, Config1Epoch, Config2Epoch}

QuoteEpochs == (0 - MaxEpochs)..MaxEpochs

\* an idle service over an empty database, and a caller about to call
\* calculate_cost with arguments of the bounded domain
InitCost ==
    /\ balance = [u \in UserIds |-> 0]
    /\ initial_balance = balance
    /\ models_active = [m \in ModelIds |-> TRUE]
    /\ predictions = <<>>
    /\ transactions = <<>>
    /\ pc = [r \in Requests |-> "idle"]
    /\ local = [r \in Requests |-> NoLocal]
    /\ response = NoResponse
    /\ OthersIdle
    /\ \E base \in QuoteBases, epoch \in QuoteEpochPrices, epochs \in QuoteEpochs :
          quote = [base |-> base, epoch |-> epoch, epochs |-> epochs, calls |-> <<>>]

\* one call of calculate_cost with the caller's arguments; its return value is
\* kept after those of the earlier calls
Quote ==
    /\ Len(quote.calls) < MaxCalls
    /\ quote' = [quote EXCEPT !.calls =
                    Append(@, calculate_cost(quote.base, quote.epoch, quote.epochs))]
    /\ UNCHANGED <<store, pc, local, initial_balance, response, others>>

NextCost == Quote

SpecCost == InitCost /\ [][NextCost]_vars

\* ------------------------------------------------------------ GET requests
\* SQLitePredictionRepository.list_by_user: SELECT * FROM predictions WHERE
\* user_id = ?, the rows by their id
list_by_user(rows, user_id) == {i \in DOMAIN rows : rows[i].user_id = user_id}

\* the response of a GET request of `endpoint` made with a key that resolves
\* to api_user (line 248, line 264) for the account user_id of the path
get_response(endpoint, api_user, user_id) ==
    LET asked == [NoResponse EXCEPT !.endpoint = endpoint,
                                    !.api_user = api_user,
                                    !.user_id = user_id] IN
    IF api_user = NoUser
    THEN [asked EXCEPT !.status = "InvalidCredential"]
    ELSE IF access_denied(api_user, user_id)
    THEN [asked EXCEPT !.status = "AccountMismatch"]
    ELSE IF endpoint = "predictions"
    THEN [asked EXCEPT !.status = "ok",
                       !.predictions = list_by_user(predictions, user_id)]
    ELSE [asked EXCEPT !.status = "ok", !.balance = balance[api_user]]

\* get_user_predictions, lines 241-256; request r of the clients is this GET
GetUserPredictions(r) ==
    /\ pc[r] = "idle"
    /\ \A q \in Requests : q < r => pc[q] # "idle"
    /\ \E key \in ApiKeys, user_id \in UserIds :
        response' = get_response("predictions", get_by_api_key(key), user_id)
    /\ pc' = [pc EXCEPT ![r] = "answered"]
    /\ UNCHANGED <<store, local, initial_balance, quote, others>>

\* get_user_balance, lines 258-271: the balance of the User object of line 264
GetUserBalance(r) ==
    /\ pc[r] = "idle"
    /\ \A q \in Requests : q < r => pc[q] # "idle"
    /\ \E key \in ApiKeys, user_id \in UserIds :
        response' = get_response("balance", get_by_api_key(key), user_id)
    /\ pc' = [pc EXCEPT ![r] = "answered"]
    /\ UNCHANGED <<store, local, initial_balance, quote, others>>

\* the service with its GET endpoints: each request of the clients is a POST
\* or a GET, and a GET is answered while the handlers of the POSTs run
NextQuery ==
    \/ Next
    \/ \E r \in Requests : GetUserPredictions(r) \/ GetUserBalance(r)

SpecQuery == Init /\ [][NextQuery]_vars

\* ------------------------------------------------ the other read operations
\* SQLitePredictionRepository.get_by_uuid: the row of that uuid, or None; the
\* uuid of a prediction is identified with its row id
NoPrediction == 0
get_by_uuid(rows, uuid) == IF uuid \in DOMAIN rows THEN uuid ELSE NoPrediction

\* get_prediction_status, lines 232-239: no key is asked for; 404 when no
\* prediction has that uuid
GetPredictionStatus_Mut(r) ==
    /\ pc[r] = "idle"
    /\ \A q \in Requests : q < r => pc[q] # "idle"
    /\ \E uuid \in Requests :
        LET prediction == get_by_uuid(predictions, uuid) IN
        /\ response' = [NoResponse EXCEPT !.endpoint = "prediction", !.status = "ok",
                                          !.predictions = {prediction}]
        /\ predictions' = [i \in DOMAIN predictions |->
                IF i = prediction
                THEN [predictions[i] EXCEPT !.status = "failed"]
                ELSE predictions[i]]
    /\ pc' = [pc EXCEPT ![r] = "answered"]
    /\ UNCHANGED <<balance, models_active, transactions, local, initial_balance, quote, others>>

GetPredictionStatus(r) ==
    /\ pc[r] = "idle"
    /\ \A q \in Requests : q < r => pc[q] # "idle"
    /\ \E uuid \in Requests :
        LET prediction == get_by_uuid(predictions, uuid) IN
        response' = IF prediction # NoPrediction
                    THEN [NoResponse EXCEPT !.endpoint = "prediction", !.status = "ok",
                                            !.predictions = {prediction}]
                    ELSE [NoResponse EXCEPT !.endpoint = "prediction",
                                            !.status = "NotFound"]
    /\ pc' = [pc EXCEPT ![r] = "answered"]
    /\ UNCHANGED <<store, local, initial_balance, quote, others>>

\* SQLiteTransactionRepository.list_by_user, lines 385-397, called for the
\* history of an account: the rows of the SELECT (their order is left out
\* here); no handler of main_sync.py calls it, so no key is checked
ListTransactions(r) ==
    /\ pc[r] = "idle"
    /\ \A q \in Requests : q < r => pc[q] # "idle"
    /\ \E user_id \in UserIds :
        response' = [NoResponse EXCEPT !.endpoint = "transactions", !.status = "ok",
                                      !.user_id = user_id,
                                      !.transactions = list_by_user(transactions, user_id)]
    /\ pc' = [pc EXCEPT ![r] = "answered"]
    /\ UNCHANGED <<store, local, initial_balance, quote, others>>

\* the service with all its read operations: each request of the clients is a
\* POST or one of the four reads
NextRead ==
    \/ NextQuery
    \/ \E r \in Requests : GetPredictionStatus(r) \/ ListTransactions(r)

SpecRead == Init /\ [][NextRead]_vars

\* ------------------------------------------------- a client that gives up
\* PhySoAPIService._create_prediction_sync of the bot, lines 106-120: the POST
\* is sent with timeout=(15, 600); when the answer has not come in time,
\* requests raises, the bot logs it and returns None.  The service is not told:
\* its handler goes on from `await physo_service.train`, which has no timeout.
ClientTimeout(r) ==
    /\ pc[r] = "admitted"
    /\ r \notin gave_up
    /\ gave_up' = gave_up \cup {r}
    /\ UNCHANGED <<store, pc, local, initial_balance, response, quote,
                   debit_order, created_at, history, lookup, provisioned,
                   bot>>

NextTimeout == Next \/ \E r \in Requests : ClientTimeout(r)

SpecTimeout == Init /\ [][NextTimeout]_vars

\* ------------------------------------------- the order of the settlements
\* The handlers with a record of the order in which the charges are settled:
\* the debit of lines 142-144 puts its prediction at the end of debit_order.
UpdateBalanceInOrder(r) ==
    /\ UpdateBalanceWrite(r)
    /\ debit_order' = Append(debit_order, local[r].pred_id)
    /\ UNCHANGED <<response, quote, gave_up, created_at, history, lookup,
                   provisioned, bot>>

NextOrder ==
    \E r \in Requests :
        \/ Authorize(r)
        \/ Admit(r)
        \/ Train(r)
        \/ UpdatePrediction(r)
        \/ UpdateBalanceInOrder(r)
        \/ AddTransaction(r)

SpecOrder == Init /\ [][NextOrder]_vars

\* ------------------------------------------ the history of the transactions
\* transactions.created_at is TIMESTAMP DEFAULT CURRENT_TIMESTAMP
\* (initialize_db_sqlite.py line 104): the second in which the row was
\* inserted, so it never decreases along the row ids and rows inserted within
\* one second share it.  MaxRows: the rows of the table; MaxSeconds: the
\* seconds over which they were inserted.
MaxRows == 3
MaxSeconds == 2

\* the values of created_at of n rows
Timestamps(n) ==
    {col \in [1..n -> 1..MaxSeconds] :
        \A i, j \in 1..n : i < j => col[i] <= col[j]}

\* the database after n predictions of cost OneCost were settled, each with
\* its transaction, and no request in flight
InitHistory ==
    /\ \E n \in 0..MaxRows :
        \E owner \in [1..n -> UserIds], col \in Timestamps(n) :
            /\ predictions = [i \in 1..n |->
                    [PredictionEntity(owner[i], 1) EXCEPT
                        !.status = "completed", !.total_cost = OneCost,
                        !.best_formula = "formula"]]
            /\ transactions = [i \in 1..n |->
                    [user_id |-> owner[i],
                     amount |-> charge_amount(OneCost),
                     prediction_id |-> i]]
            /\ created_at = col
            /\ initial_balance = [u \in UserIds |->
                    OneCost * Cardinality({i \in 1..n : owner[i] = u})]
    /\ balance = [u \in UserIds |-> 0]
    /\ models_active = [m \in ModelIds |-> TRUE]
    /\ pc = [r \in Requests |-> "idle"]
    /\ local = [r \in Requests |-> NoLocal]
    /\ response = NoResponse
    /\ quote = NoQuote
    /\ gave_up = {}
    /\ debit_order = <<>>
    /\ history = NoHistory
    /\ lookup = NoLookup
    /\ provisioned = TRUE
    /\ BotIdle

\* SQLiteTransactionRepository.list_by_user, lines 385-397:
\* SELECT * FROM transactions WHERE user_id = ? ORDER BY created_at DESC.
\* The results the SELECT can return: the rows of the user, each once, a row
\* with a greater created_at before one with a smaller; SQL leaves the order
\* of rows with the same created_at to the engine.
transaction_list_by_user(rows, col, user_id) ==
    LET ids == list_by_user(rows, user_id)
        n == Cardinality(ids) IN
    {result \in [1..n -> ids] :
        /\ \A i, j \in 1..n : i # j => result[i] # result[j]
        /\ \A i, j \in 1..n : i < j => col[result[i]] >= col[result[j]]}

\* one call of list_by_user for an account
TransactionListByUser ==
    /\ \E user_id \in UserIds :
        \E result \in transaction_list_by_user(transactions, created_at, user_id) :
            history' = [user_id |-> user_id, rows |-> result]
    /\ UNCHANGED <<store, pc, local, initial_balance, response, quote, gave_up,
                   debit_order, created_at, lookup, provisioned, bot>>

NextHistory == TransactionListByUser

SpecHistory == InitHistory /\ [][NextHistory]_vars

\* ------------------------------------- provisioning and the tier of a quote
\* PredictionCreateRequest.run_config (line 43, default "config0"): the names
\* of the three seeded tiers, and a name that is no tier
RunConfigs == {"config0", "config1", "config2", "config9"}

\* SQLiteModelRepository.get_by_name: the tier of that name, or None; the
\* seeded tiers have the row ids 1, 2, 3 in the order of physo_configs
get_by_name(name) ==
    CASE name = "config0" -> 1
      [] name = "config1" -> 2
      [] name = "config2" -> 3
      [] OTHER -> NoModel

\* Either the database has not been provisioned (no tier exists), or it was
\* and the operator has since switched every tier off; a client is about to
\* ask for a prediction with a run_config and a number of epochs.
InitLookup ==
    /\ provisioned \in BOOLEAN
    /\ models_active = [m \in ModelIds |-> FALSE]
    /\ balance = [u \in UserIds |-> 0]
    /\ initial_balance = balance
    /\ predictions = <<>>
    /\ transactions = <<>>
    /\ pc = [r \in Requests |-> "idle"]
    /\ local = [r \in Requests |-> NoLocal]
    /\ response = NoResponse
    /\ quote = NoQuote
    /\ gave_up = {}
    /\ debit_order = <<>>
    /\ created_at = <<>>
    /\ history = NoHistory
    /\ \E run_config \in RunConfigs, epochs \in 0..MaxEpochs :
          lookup = [NoLookup EXCEPT !.run_config = run_config, !.epochs = epochs]
    /\ BotIdle

\* initialize_sqlite_database, lines 119-132: the three tiers of physo_configs
\* are inserted, each with is_active = 1
Provision ==
    /\ ~provisioned
    /\ provisioned' = TRUE
    /\ models_active' = [m \in ModelIds |-> TRUE]
    /\ UNCHANGED <<balance, predictions, transactions, pc, local, initial_balance,
                   response, quote, gave_up, debit_order, created_at, history,
                   lookup, bot>>

\* create_prediction_sync, lines 80-86: the tier of the quote is
\* model_repo.get_active_model(), 503 when there is none, and the cost is
\* quoted from its prices; request.run_config is not read here
ResolveTier ==
    /\ provisioned
    /\ ~lookup.done
    /\ LET model == get_active_model IN
       lookup' = IF model = NoModel
                 THEN [lookup EXCEPT !.error = "NoTierAvailable", !.done = TRUE]
                 ELSE [lookup EXCEPT
                        !.model_id = model,
                        !.total_cost = calculate_cost(base_price(model),
                                            epoch_price(model), lookup.epochs),
                        !.done = TRUE]
    /\ UNCHANGED <<store, pc, local, initial_balance, response, quote, gave_up,
                   debit_order, created_at, history, provisioned, bot>>

\* the operator switches a tier while the database is in use
SwitchTier == provisioned /\ SetActive

NextLookup == Provision \/ ResolveTier \/ SwitchTier

SpecLookup == InitLookup /\ [][NextLookup]_vars

\* ------------------------------------------- the bot: UserService
\* UserService of the Telegram bot keeps its users in a dict, by telegram id,
\* and guards it with self._lock (threading.RLock): each block `with
\* self._lock` is one step here, and threads interleave between the blocks.
\* MaxThreads: the threads that call the service, one call each.
MaxThreads == 3

BotThreads == 1..MaxThreads

TelegramIds == {1}

DEFAULT_CREDITS == 100

\* the amounts of add_credits (a button of /add_credits) and of spend_credits
\* (nothing, and more than half of DEFAULT_CREDITS)
AddAmounts == {10}
SpendAmounts == {0, 60}

\* self.users.get(telegram_id) is None
NoUserData == [exists |-> FALSE, credits |-> 0, total_predictions |-> 0]

NoCall == [pc |-> "idle", op |-> "none", telegram_id |-> 0, amount |-> 0,
           result |-> "none"]

\* the UserService of services/__init__.py, constructed and initialized
TheService == [instance |-> TRUE, initialized |-> TRUE, loads |-> 1]

\* a bot that has just loaded users.json, where a user is unknown or was
\* created by an earlier run, over an idle service
InitBot ==
    /\ users \in [TelegramIds ->
            {NoUserData, [NoUserData EXCEPT !.exists = TRUE,
                                            !.credits = DEFAULT_CREDITS]}]
    /\ threads = [t \in BotThreads |-> NoCall]
    /\ credit_log = <<>>
    /\ chat = <<>>
    /\ lock = NoHolder
    /\ service = TheService
    /\ balance = [u \in UserIds |-> 0]
    /\ initial_balance = balance
    /\ models_active = [m \in ModelIds |-> TRUE]
    /\ predictions = <<>>
    /\ transactions = <<>>
    /\ pc = [r \in Requests |-> "idle"]
    /\ local = [r \in Requests |-> NoLocal]
    /\ response = NoResponse
    /\ quote = NoQuote
    /\ gave_up = {}
    /\ debit_order = <<>>
    /\ created_at = <<>>
    /\ history = NoHistory
    /\ lookup = NoLookup
    /\ provisioned = TRUE

\* what a step of the bot leaves alone
bot_frame == <<store, pc, local, initial_balance, response, quote, gave_up,
               debit_order, created_at, history, lookup, provisioned>>

\* _append_credit_log, lines 78-90: one row (telegram_id, delta, new_balance)
\* is appended to credit_history.csv
append_credit_log_Mut(log, telegram_id, delta, new_balance) ==
    Append(log, [telegram_id |-> telegram_id, delta |-> delta,
                 new_balance |-> new_balance - delta])

append_credit_log(log, telegram_id, delta, new_balance) ==
    Append(log, [telegram_id |-> telegram_id, delta |-> delta,
                 new_balance |-> new_balance])

\* add_credits, lines 134-146, the block under the lock: None for an unknown
\* user; otherwise the credits grow by amount and the change is logged
add_credits(us, log, telegram_id, amount) ==
    IF ~us[telegram_id].exists
    THEN [users |-> us, log |-> log, result |-> "None"]
    ELSE LET credits == us[telegram_id].credits + amount IN
         [users |-> [us EXCEPT ![telegram_id].credits = credits],
          log |-> append_credit_log(log, telegram_id, amount, credits),
          result |-> "user"]

\* spend_credits, lines 150-156: the user exists and does not hold less than
\* amount
can_spend_Mut(user, amount) == user.exists

can_spend(user, amount) == user.exists /\ ~(user.credits < amount)

\* spend_credits, lines 148-164, the block under the lock: None when the user
\* is unknown or holds less than amount; otherwise the credits shrink by
\* amount, total_predictions grows by one and the change is logged
spend_credits(us, log, telegram_id, amount) ==
    IF ~can_spend(us[telegram_id], amount)
    THEN [users |-> us, log |-> log, result |-> "None"]
    ELSE LET credits == us[telegram_id].credits - amount IN
         [users |-> [us EXCEPT ![telegram_id].credits = credits,
                               ![telegram_id].total_predictions = @ + 1],
          log |-> append_credit_log(log, telegram_id, 0 - amount, credits),
          result |-> "user"]

\* thread t makes its call now: the threads make their calls in their order
Calls(t) ==
    /\ threads[t].pc = "idle"
    /\ \A q \in BotThreads : q < t => threads[q].pc # "idle"

\* get_or_create_user, lines 127-130: under the lock, the user is looked up
\* and returned when it exists; otherwise the lock is released and
\* create_user is called (line 132)
GetOrCreateUser(t) ==
    /\ Calls(t)
    /\ \E id \in TelegramIds :
        threads' = [threads EXCEPT ![t] =
            [NoCall EXCEPT !.pc = IF users[id].exists THEN "done" ELSE "create",
                           !.op = "get_or_create_user", !.telegram_id = id,
                           !.result = IF users[id].exists THEN "user" ELSE "none"]]
    /\ UNCHANGED <<users, credit_log, chat, lock, service, bot_frame>>

\* create_user, lines 101-123: under the lock, self.users[telegram_id] is set
\* to a new user with DEFAULT_CREDITS, whatever it held
CreateUser(t) ==
    /\ threads[t].pc = "create"
    /\ users' = [users EXCEPT ![threads[t].telegram_id] =
            [exists |-> TRUE, credits |-> DEFAULT_CREDITS, total_predictions |-> 0]]
    /\ threads' = [threads EXCEPT ![t].pc = "done", ![t].result = "user"]
    /\ UNCHANGED <<credit_log, chat, lock, service, bot_frame>>

\* a call of add_credits
AddCredits(t) ==
    /\ Calls(t)
    /\ \E id \in TelegramIds, amount \in AddAmounts :
        LET out == add_credits(users, credit_log, id, amount) IN
        /\ users' = out.users
        /\ credit_log' = out.log
        /\ threads' = [threads EXCEPT ![t] =
                [pc |-> "done", op |-> "add_credits", telegram_id |-> id,
                 amount |-> amount, result |-> out.result]]
    /\ UNCHANGED <<chat, lock, service, bot_frame>>

\* a call of spend_credits
SpendCredits(t) ==
    /\ Calls(t)
    /\ \E id \in TelegramIds, amount \in SpendAmounts :
        LET out == spend_credits(users, credit_log, id, amount) IN
        /\ users' = out.users
        /\ credit_log' = out.log
        /\ threads' = [threads EXCEPT ![t] =
                [pc |-> "done", op |-> "spend_credits", telegram_id |-> id,
                 amount |-> amount, result |-> out.result]]
    /\ UNCHANGED <<chat, lock, service, bot_frame>>

NextBot ==
    \E t \in BotThreads :
        \/ GetOrCreateUser(t)
        \/ CreateUser(t)
        \/ AddCredits(t)
        \/ SpendCredits(t)

SpecBot == InitBot /\ [][NextBot]_vars

\* ------------------------------------- the bot: constructing UserService
\* Threads that construct UserService() and then use it.  __new__ creates the
\* instance under _instance_lock; __init__ tests _initialized without a lock
\* and then sets the lock, the users map (read from users.json) and the flag.
\* users stands for the content of users.json too: every change is saved.
NoConstruction == [pc |-> "idle", loaded |-> <<>>]

InitSingleton ==
    /\ users \in [TelegramIds ->
            {NoUserData, [NoUserData EXCEPT !.exists = TRUE,
                                            !.credits = DEFAULT_CREDITS]}]
    /\ threads = [t \in BotThreads |-> NoConstruction]
    /\ credit_log = <<>>
    /\ chat = <<>>
    /\ lock = NoHolder
    /\ service = NoService
    /\ balance = [u \in UserIds |-> 0]
    /\ initial_balance = balance
    /\ models_active = [m \in ModelIds |-> TRUE]
    /\ predictions = <<>>
    /\ transactions = <<>>
    /\ pc = [r \in Requests |-> "idle"]
    /\ local = [r \in Requests |-> NoLocal]
    /\ response = NoResponse
    /\ quote = NoQuote
    /\ gave_up = {}
    /\ debit_order = <<>>
    /\ created_at = <<>>
    /\ history = NoHistory
    /\ lookup = NoLookup
    /\ provisioned = TRUE

\* __new__, lines 28-33: the instance is created if there is none, and
\* returned
New(t) ==
    /\ threads[t].pc = "idle"
    /\ \A q \in BotThreads : q < t => threads[q].pc # "idle"
    /\ service' = [service EXCEPT !.instance = TRUE]
    /\ threads' = [threads EXCEPT ![t].pc = "new"]
    /\ UNCHANGED <<users, credit_log, chat, lock, bot_frame>>

\* __init__, lines 36-37: return when _initialized is set
InitCheck(t) ==
    /\ threads[t].pc = "new"
    /\ threads' = [threads EXCEPT ![t].pc =
            IF service.initialized THEN "done" ELSE "init"]
    /\ UNCHANGED <<users, credit_log, chat, lock, service, bot_frame>>

\* __init__, lines 39-41: a new RLock is set and _load_users reads users.json
InitLoad(t) ==
    /\ threads[t].pc = "init"
    /\ threads' = [threads EXCEPT ![t].pc = "loaded", ![t].loaded = users]
    /\ UNCHANGED <<users, credit_log, chat, lock, service, bot_frame>>

\* __init__, lines 41-46: self.users is set to what was read, and
\* _initialized is set
InitDone(t) ==
    /\ threads[t].pc = "loaded"
    /\ users' = threads[t].loaded
    /\ service' = [service EXCEPT !.initialized = TRUE, !.loads = @ + 1]
    /\ threads' = [threads EXCEPT ![t].pc = "done"]
    /\ UNCHANGED <<credit_log, chat, lock, bot_frame>>

\* the thread uses the service it constructed: get_or_create_user for a user
\* whose first contact this is, add_credits otherwise
UseService(t) ==
    /\ threads[t].pc = "done"
    /\ \E id \in TelegramIds, amount \in AddAmounts :
        IF users[id].exists
        THEN LET out == add_credits(users, credit_log, id, amount) IN
             users' = out.users /\ credit_log' = out.log
        ELSE /\ users' = [users EXCEPT ![id] =
                    [exists |-> TRUE, credits |-> DEFAULT_CREDITS,
                     total_predictions |-> 0]]
             /\ credit_log' = credit_log
    /\ threads' = [threads EXCEPT ![t].pc = "used"]
    /\ UNCHANGED <<chat, lock, service, bot_frame>>

NextSingleton ==
    \E t \in BotThreads :
        \/ New(t)
        \/ InitCheck(t)
        \/ InitLoad(t)
        \/ InitDone(t)
        \/ UseService(t)

SpecSingleton == InitSingleton /\ [][NextSingleton]_vars

\* --------------------------------------- the bot: process_prediction
\* The handlers of the bot that lead to a prediction.  MaxChats: the handlers
\* that run, each for one press of an epochs button by the user of TelegramIds.
MaxChats == 2

Chats == 1..MaxChats

Configs == {"config0", "config1", "config2"}

\* the epochs on the buttons of handle_document (lines 100-103) and of
\* epochs_callback (lines 302-305)
OfferedEpochs == {10, 20, 50, 100}

\* process_prediction, lines 150-151: base_costs, and epoch_costs in tenths of
\* a credit
base_costs(config) ==
    CASE config = "config0" -> 1 [] config = "config1" -> 2 [] OTHER -> 3

epoch_costs(config) ==
    CASE config = "config0" -> 1 [] config = "config1" -> 2 [] OTHER -> 3

\* process_prediction, line 153:
\* total_cost = int(base_costs[config] + epoch_costs[config] * epochs)
prediction_cost(config, epochs) ==
    (10 * base_costs(config) + epoch_costs(config) * epochs) \div 10

\* handle_document, lines 100-103: the price on the button of each epochs
\* count, "10 эпох (~2 кредита)" to "100 эпох (~11 кредитов)"
document_button_price(epochs) ==
    CASE epochs = 10 -> 2 [] epochs = 20 -> 3 [] epochs = 50 -> 6 [] OTHER -> 11

\* epochs_callback, lines 302-305: the price on the button of each epochs
\* count after a configuration was chosen, int(1 + 0.1*epochs) for every
\* configuration
config_button_price(config, epochs) == (10 + epochs) \div 10

NoChat == [pc |-> "idle", telegram_id |-> 0, config |-> "none", epochs |-> 0,
           shown |-> 0, total_cost |-> 0, credits_before |-> 0,
           status |-> "none", spent |-> FALSE]

\* a user who holds few credits, after earlier predictions
LowCredits == 5

\* a running bot whose user holds DEFAULT_CREDITS or, after spending, few
\* credits; no handler runs
InitChat ==
    /\ \E credits \in {DEFAULT_CREDITS, LowCredits} :
        /\ users = [id \in TelegramIds |->
                [exists |-> TRUE, credits |-> credits, total_predictions |-> 0]]
        /\ credit_log = IF credits = DEFAULT_CREDITS THEN <<>>
                        ELSE <<[telegram_id |-> 1,
                                delta |-> credits - DEFAULT_CREDITS,
                                new_balance |-> credits]>>
    /\ threads = <<>>
    /\ chat = [c \in Chats |-> NoChat]
    /\ lock = NoHolder
    /\ service = TheService
    /\ balance = [u \in UserIds |-> 0]
    /\ initial_balance = balance
    /\ models_active = [m \in ModelIds |-> TRUE]
    /\ predictions = <<>>
    /\ transactions = <<>>
    /\ pc = [r \in Requests |-> "idle"]
    /\ local = [r \in Requests |-> NoLocal]
    /\ response = NoResponse
    /\ quote = NoQuote
    /\ gave_up = {}
    /\ debit_order = <<>>
    /\ created_at = <<>>
    /\ history = NoHistory
    /\ lookup = NoLookup
    /\ provisioned = TRUE

\* what a step of process_prediction leaves alone, next to the service
chat_frame == <<threads, service, bot_frame>>

\* epochs_callback, lines 288-290 and 315-318: the user presses an epochs
\* button, one of handle_document (config0) or one shown after a
\* configuration was chosen; shown is the price on that button
PressEpochs(c) ==
    /\ chat[c].pc = "idle"
    /\ \A d \in Chats : d < c => chat[d].pc # "idle"
    /\ \E id \in TelegramIds, epochs \in OfferedEpochs :
        \/ chat' = [chat EXCEPT ![c] =
                [NoChat EXCEPT !.pc = "pressed", !.telegram_id = id,
                               !.config = "config0", !.epochs = epochs,
                               !.shown = document_button_price(epochs)]]
        \/ \E config \in Configs :
            chat' = [chat EXCEPT ![c] =
                [NoChat EXCEPT !.pc = "pressed", !.telegram_id = id,
                               !.config = config, !.epochs = epochs,
                               !.shown = config_button_price(config, epochs)]]
    /\ UNCHANGED <<users, credit_log, lock, chat_frame>>

\* get_user, line 97: `with self._lock` is entered
GetUserLock_Mut(c) ==
    /\ chat[c].pc = "pressed"
    /\ lock = NoHolder
    /\ lock' = c
    /\ chat' = [chat EXCEPT ![c].pc = "calling",
                            ![c].total_cost =
                                prediction_cost(chat[c].config, chat[c].epochs),
                            ![c].credits_before = users[chat[c].telegram_id].credits]
    /\ UNCHANGED <<users, credit_log, chat_frame>>

GetUserLock(c) ==
    /\ chat[c].pc = "pressed"
    /\ lock = NoHolder
    /\ lock' = c
    /\ chat' = [chat EXCEPT ![c].pc = "get_user"]
    /\ UNCHANGED <<users, credit_log, chat_frame>>

\* process_prediction, lines 144-163: get_user returns a copy of the user and
\* leaves the lock; the cost is computed; the handler ends when the user is
\* unknown or holds less than the cost
GetUser(c) ==
    /\ chat[c].pc = "get_user"
    /\ lock' = NoHolder
    /\ LET user == users[chat[c].telegram_id]
           total_cost == prediction_cost(chat[c].config, chat[c].epochs) IN
       chat' = [chat EXCEPT
            ![c].total_cost = total_cost,
            ![c].credits_before = user.credits,
            ![c].status = IF ~user.exists THEN "no user"
                          ELSE IF user.credits < total_cost THEN "no credits"
                          ELSE "none",
            ![c].pc = IF ~user.exists \/ user.credits < total_cost
                      THEN "done" ELSE "calling"]
    /\ UNCHANGED <<users, credit_log, chat_frame>>

\* the answers of create_prediction: None (an error or a timeout), or the
\* prediction with its status
ApiResults == {"None", "completed", "failed", "processing"}

\* process_prediction, lines 173-183: await create_prediction, the long call
\* of the service (in a thread of its own, physo_api.py line 42); the handler
\* ends when it returns None
CreatePrediction(c) ==
    /\ chat[c].pc = "calling"
    /\ \E result \in ApiResults :
        chat' = [chat EXCEPT ![c].status = result,
                             ![c].pc = IF result = "None" THEN "done"
                                       ELSE "answered"]
    /\ UNCHANGED <<users, credit_log, lock, chat_frame>>

\* spend_credits, line 150: `with self._lock` is entered
SpendLock(c) ==
    /\ chat[c].pc = "answered"
    /\ lock = NoHolder
    /\ lock' = c
    /\ chat' = [chat EXCEPT ![c].pc = "spending"]
    /\ UNCHANGED <<users, credit_log, chat_frame>>

\* process_prediction, lines 186-190: spend_credits(telegram_id, total_cost),
\* whatever the status of the prediction is
Spend(c) ==
    /\ chat[c].pc = "spending"
    /\ lock' = NoHolder
    /\ LET out == spend_credits(users, credit_log, chat[c].telegram_id,
                                chat[c].total_cost) IN
        /\ users' = out.users
        /\ credit_log' = out.log
        /\ chat' = [chat EXCEPT ![c].pc = "done",
                                ![c].spent = (out.result = "user")]
    /\ UNCHANGED chat_frame

NextChat ==
    \E c \in Chats :
        \/ PressEpochs(c)
        \/ GetUserLock(c)
        \/ GetUser(c)
        \/ CreatePrediction(c)
        \/ SpendLock(c)
        \/ Spend(c)

SpecChat == InitChat /\ [][NextChat]_vars

\* ------------------------------------------------------------- properties
\* the transactions that reference prediction p
TransactionsOf(p) == {i \in DOMAIN transactions : transactions[i].prediction_id = p}

RECURSIVE SumAmounts(_, _)
\* the sum of the amounts of the first n transactions whose user_id is u
SumAmounts(u, n) ==
    IF n = 0 THEN 0
    ELSE SumAmounts(u, n - 1)
         + (IF transactions[n].user_id = u THEN transactions[n].amount ELSE 0)

\* no handler is between its first and its last write
Quiescent == \A r \in Requests : pc[r] \in {"idle", "rejected", "returned", "raised"}

\* request r has not been admitted, or is an ordinary request: quoted OneCost,
\* and the engine succeeded
Ordinary(r) ==
    \/ pc[r] \in {"idle", "rejected"}
    \/ local[r].total_cost = OneCost /\ local[r].success

\* the handler of prediction p is between the update of the row and its end
InSettlement(p) ==
    \E r \in Requests : local[r].pred_id = p /\ pc[r] \in {"updated", "debited", "except"}

\* C1: no transaction references a prediction whose status is failed (stated
\* for the predictions of an ordinary request, quoted OneCost).
C1_NoTransactionForFailed ==
    \A p \in DOMAIN predictions :
        (predictions[p].status = "failed" /\ predictions[p].total_cost = OneCost)
        => TransactionsOf(p) = {}

\* C2: a request that was admitted and ended failed, alone on the service,
\* leaves the balance of its account at the value it had before the request
\* (stated for an ordinary request, quoted OneCost).
C2_FailedLeavesBalance ==
    \A r \in Requests :
        ( /\ pc[r] = "returned"
          /\ predictions[local[r].pred_id].status = "failed"
          /\ local[r].total_cost = OneCost
          /\ \A q \in Requests \ {r} : pc[q] = "idle" )
        => balance[local[r].api_user] = initial_balance[local[r].api_user]

\* C3: the stored balance of every account is never negative, under any
\* interleaving of the requests.
C3_BalanceNeverNegative == \A u \in UserIds : balance[u] >= 0

\* a charge has brought an account from exactly one cost down to zero
C3_Witness ==
    \E r \in Requests :
        /\ pc[r] = "returned"
        /\ local[r].total_cost = OneCost
        /\ balance[local[r].api_user] = 0

\* C4: once every handler has ended, the balance of every account is its
\* initial balance plus the sum of the amounts of its transactions (stated for
\* runs of ordinary requests: quoted OneCost, the engine succeeds).
C4_BalanceEqualsLedger ==
    (Quiescent /\ \A r \in Requests : Ordinary(r)) =>
        \A u \in UserIds :
            balance[u] = initial_balance[u] + SumAmounts(u, Len(transactions))

\* C5: of two requests of cost OneCost authorized against the same account
\* while its balance is exactly OneCost, at most one succeeds (is charged and
\* returns its completed prediction).
C5_ExactlyOneCharge ==
    \A r1, r2 \in Requests :
        ( /\ r1 # r2
          /\ local[r1].api_user = local[r2].api_user
          /\ local[r1].api_user # NoUser
          /\ initial_balance[local[r1].api_user] = OneCost
          /\ local[r1].api_balance = OneCost /\ local[r2].api_balance = OneCost
          /\ local[r1].total_cost = OneCost /\ local[r2].total_cost = OneCost
          /\ local[r1].success /\ local[r2].success )
        => ~(pc[r1] = "returned" /\ pc[r2] = "returned")

C7_SettlementAllOrNothing ==
    \A r \in Requests :
        (pc[r] \in {"returned", "raised"} /\ local[r].success
            /\ local[r].total_cost = OneCost) =>
            (local[r].wrote_balance <=> TransactionsOf(local[r].pred_id) # {})

\* C8: a persisted status completed or failed is never changed by a later
\* step (stated for the predictions of an ordinary request, quoted OneCost).
C8_TerminalStatusIsFinal ==
    [][\A p \in DOMAIN predictions :
          ( /\ predictions[p].status \in {"completed", "failed"}
            /\ predictions[p].total_cost = OneCost ) =>
              predictions'[p].status = predictions[p].status]_vars

\* C9: whenever the engine is about to run for a request, the record of the
\* request is persisted with status processing, for the account whose balance
\* passed the check; no record is persisted before the check has passed.
C9_RecordBeforeEngine ==
    \A r \in Requests :
        /\ pc[r] = "admitted" =>
              /\ local[r].pred_id \in DOMAIN predictions
              /\ predictions[local[r].pred_id].status = "processing"
              /\ predictions[local[r].pred_id].user_id = local[r].api_user
              /\ balance_ok(local[r].api_balance, local[r].total_cost)
        /\ pc[r] \in {"idle", "rejected", "authorized"} => local[r].pred_id = 0

\* the engine is about to run for an admitted request
C9_Witness ==
    \E r \in Requests :
        pc[r] = "admitted" /\ local[r].pred_id \in DOMAIN predictions

\* C10: the step that rejects a request changes no balance, no prediction and
\* no transaction, and the rejected request has no prediction record.
C10_RejectionChangesNothing ==
    [][\A r \in Requests :
          (pc[r] = "idle" /\ pc'[r] = "rejected") =>
              /\ balance' = balance
              /\ predictions' = predictions
              /\ transactions' = transactions
              /\ local'[r].pred_id = 0]_vars

\* a request was rejected for an insufficient balance after another request
\* was charged
C10_Witness ==
    \E r, q \in Requests :
        /\ pc[r] = "rejected"
        /\ local[r].error = "InsufficientBalance"
        /\ pc[q] = "returned"

\* C11: a request has passed authorization (and a prediction record exists
\* for it) only if the balance read at authorization was > 0 and >= the quoted
\* cost; a request rejected with InsufficientBalance has no record and carries
\* the quoted cost (required) and the balance read (available), the balance
\* being positive and below the quote.
C11_AdmittedOnlyIfCovered ==
    \A r \in Requests :
        /\ (pc[r] \notin {"idle", "rejected"} \/ local[r].pred_id # 0) =>
              /\ local[r].api_balance > 0
              /\ local[r].api_balance >= local[r].total_cost
        /\ local[r].error = "InsufficientBalance" =>
              /\ pc[r] = "rejected"
              /\ local[r].pred_id = 0
              /\ local[r].api_balance > 0
              /\ local[r].api_balance < local[r].total_cost
              /\ \E m \in ModelIds, e \in EpochChoices :
                     local[r].total_cost = calculate_cost(base_price(m), epoch_price(m), e)

\* a request was rejected for a balance of OneCost below its quote, and
\* nothing was recorded
C11_Witness ==
    \E r \in Requests :
        /\ local[r].error = "InsufficientBalance"
        /\ local[r].api_balance = OneCost
        /\ local[r].total_cost > OneCost
        /\ predictions = <<>>

\* C12: a key that resolves to account A never acts on an account B # A.  A
\* POST whose user_id differs from the account of its key is rejected with
\* AccountMismatch and changes nothing; every prediction row is created for,
\* and every balance is written for, the account of the key of a request that
\* claimed that same account; a GET answered with data is for the account of
\* its key and holds that account's data, a GET for another account is
\* answered AccountMismatch without data; a GET changes nothing.
C12_NoActionOnOtherAccount ==
    [][ /\ \A r \in Requests :
            ( /\ pc[r] = "idle" /\ pc'[r] # "idle"
              /\ local'[r].api_user # NoUser
              /\ local'[r].user_id # local'[r].api_user ) =>
                /\ pc'[r] = "rejected"
                /\ local'[r].error = "AccountMismatch"
                /\ store' = store
        /\ Len(predictions') > Len(predictions) =>
              \E r \in Requests :
                  /\ pc[r] = "authorized"
                  /\ local[r].user_id = local[r].api_user
                  /\ predictions'[Len(predictions')].user_id = local[r].api_user
        /\ \A u \in UserIds : balance'[u] # balance[u] =>
              \E r \in Requests :
                  /\ pc[r] = "updated"
                  /\ local[r].user_id = u /\ local[r].api_user = u
        /\ response' # response => store' = store
        /\ response'.status = "ok" =>
              /\ response'.user_id = response'.api_user
              /\ (response' # response /\ response'.endpoint = "balance") =>
                    response'.balance = balance[response'.api_user]
              /\ \A i \in response'.predictions :
                    predictions'[i].user_id = response'.api_user
        /\ ( /\ response'.endpoint # "none"
             /\ response'.api_user # NoUser
             /\ response'.user_id # response'.api_user ) =>
                /\ response'.status = "AccountMismatch"
                /\ response'.balance = 0
                /\ response'.predictions = {} ]_vars

\* the key of one account was refused the balance of another account, which
\* is positive, and a POST with the key of one account for another account,
\* which could have paid for it, was rejected
C12_Witness ==
    /\ response.endpoint = "balance"
    /\ response.status = "AccountMismatch"
    /\ balance[response.user_id] > 0
    /\ \E r \in Requests :
          /\ local[r].error = "AccountMismatch"
          /\ local[r].user_id # local[r].api_user
          /\ balance[local[r].user_id] > 0

\* the rejection the checks report for a key that resolves to api_user, a
\* claimed account user_id, the balance bal of api_user and the set of active
\* tiers, when the balance test comes before or after the tier test
ReportedError(api_user, user_id, bal, tiers, tier_first) ==
    IF api_user = NoUser THEN "InvalidCredential"
    ELSE IF api_user # user_id THEN "AccountMismatch"
    ELSE IF tier_first
         THEN IF tiers = {} THEN "NoTierAvailable"
              ELSE IF bal <= 0 THEN "ZeroBalance" ELSE "InsufficientBalance"
         ELSE IF bal <= 0 THEN "ZeroBalance"
              ELSE IF tiers = {} THEN "NoTierAvailable" ELSE "InsufficientBalance"

\* the error of the step that rejects request r is the one ReportedError names
RejectedInOrder(r, tier_first) ==
    (pc[r] = "idle" /\ pc'[r] = "rejected") =>
        local'[r].error =
            ReportedError(local'[r].api_user, local'[r].user_id,
                          IF local'[r].api_user = NoUser THEN 0
                          ELSE balance[local'[r].api_user],
                          ActiveModels, tier_first)

RECURSIVE AddPerEpoch(_, _, _)
\* base, to which epoch is added once per epoch of a positive count, and from
\* which it is taken once per epoch of a negative one
AddPerEpoch(base, epoch, epochs) ==
    IF epochs = 0 THEN base
    ELSE IF epochs > 0 THEN AddPerEpoch(base, epoch, epochs - 1) + epoch
    ELSE AddPerEpoch(base, epoch, epochs + 1) - epoch

\* C14: every call of calculate_cost returns the base price plus the epoch
\* price once per epoch, for all arguments of the bounded domain, and the
\* successive calls with the same arguments return the same value.
C14_CostIsBasePlusEpochs ==
    \A i \in DOMAIN quote.calls :
        /\ quote.calls[i] = AddPerEpoch(quote.base, quote.epoch, quote.epochs)
        /\ quote.calls[i] = quote.calls[1]

\* config0 was quoted MaxCalls times for MaxEpochs epochs
C14_Witness ==
    /\ Len(quote.calls) = MaxCalls
    /\ quote.base = Config0Base /\ quote.epoch = Config0Epoch
    /\ quote.epochs = MaxEpochs
    /\ quote.calls[MaxCalls] = OneCost

\* C15: a request with a negative count of epochs is rejected before it is
\* quoted: it never passes authorization, never has a prediction record and
\* never writes a balance.
C15_NegativeEpochsRejected ==
    \A r \in Requests :
        local[r].epochs < 0 =>
            /\ pc[r] \in {"idle", "rejected"}
            /\ local[r].pred_id = 0
            /\ ~local[r].wrote_balance

\* the handler that created prediction p
HandlerOf(p) == CHOOSE r \in Requests : local[r].pred_id = p

\* C16: the total_cost of a prediction is None until the prediction is
\* settled (its status leaves processing) and from then on, in every later
\* state, it is the value quoted at authorization, from the prices of the
\* tier then active and the epochs of the request, whatever tier is active
\* by then.
C16_CostWrittenOnceAsQuoted ==
    \A p \in DOMAIN predictions :
        IF predictions[p].status = "processing"
        THEN predictions[p].total_cost = "None"
        ELSE /\ predictions[p].total_cost = local[HandlerOf(p)].total_cost
             /\ predictions[p].total_cost =
                   calculate_cost(base_price(predictions[p].model_id),
                                  epoch_price(predictions[p].model_id),
                                  local[HandlerOf(p)].epochs)

\* a prediction quoted OneCost on config0 is settled at OneCost while config0
\* is no longer the active tier
C16_Witness ==
    \E p \in DOMAIN predictions :
        /\ predictions[p].status = "completed"
        /\ predictions[p].model_id = 1
        /\ predictions[p].total_cost = OneCost
        /\ get_active_model = 2

\* C17: the settlement of a successful request takes the quoted cost off the
\* balance the account has immediately before it, and appends exactly one
\* transaction, of amount minus the cost, that references the prediction
\* (stated for runs of ordinary requests: quoted OneCost, the engine succeeds).
C17_SettlementDebitsQuote ==
    [][\A r \in Requests :
          /\ (pc[r] = "updated" /\ pc'[r] = "debited"
                /\ \A q \in Requests : Ordinary(q)) =>
                balance'[local[r].api_user]
                    = balance[local[r].api_user] - local[r].total_cost
          /\ (pc[r] = "debited" /\ pc'[r] = "returned"
                /\ local[r].success /\ local[r].total_cost = OneCost) =>
                /\ Len(transactions') = Len(transactions) + 1
                /\ transactions'[Len(transactions')] =
                      [user_id |-> local[r].api_user,
                       amount |-> 0 - local[r].total_cost,
                       prediction_id |-> local[r].pred_id]
                /\ TransactionsOf(local[r].pred_id) = {}]_vars

C19_FailureIsReturnedNotRaised ==
    \A r \in Requests :
        /\ pc[r] \notin {"except", "raised"}
        /\ pc[r] = "returned" =>
              /\ predictions[local[r].pred_id].status
                    = (IF local[r].success THEN "completed" ELSE "failed")
              /\ predictions[local[r].pred_id].best_formula = local[r].best_formula
              /\ predictions[local[r].pred_id].total_cost = local[r].total_cost
        /\ (pc[r] \in {"trained", "updated", "debited", "returned"}
              /\ ~local[r].success) => local[r].best_formula = "None"

\* a request whose engine run failed has returned its record, failed
C19_Witness ==
    \E r \in Requests :
        /\ pc[r] = "returned"
        /\ ~local[r].success
        /\ predictions[local[r].pred_id].status = "failed"

\* C20: a prediction whose engine run reported success without a formula
\* (the text of NoFormula in its place) is settled failed and is not charged:
\* no debit is written for it and no transaction references it (stated for a
\* request quoted OneCost).
C20_UnusableResultIsFailure ==
    \A r \in Requests :
        ( /\ pc[r] \in {"updated", "debited", "returned"}
          /\ local[r].success
          /\ local[r].best_formula = NoFormula
          /\ local[r].total_cost = OneCost ) =>
            /\ predictions[local[r].pred_id].status = "failed"
            /\ ~local[r].wrote_balance
            /\ TransactionsOf(local[r].pred_id) = {}

\* C21: every prediction in status failed whose handler has ended carries a
\* text that tells why it failed in place of its formula, whether the engine
\* returned a failure value or an exception was raised (stated for the
\* predictions of a request quoted OneCost).
C21_FailedCarriesReason ==
    \A p \in DOMAIN predictions :
        ( /\ predictions[p].status = "failed"
          /\ ~InSettlement(p)
          /\ predictions[p].total_cost = OneCost ) =>
            predictions[p].best_formula \notin {"None", "formula"}

\* C23: a persistence failure during a charge is propagated as a hard error
\* and is never recorded as a business outcome: the prediction of a request
\* that ended by raising, because a write it depends on did not complete,
\* does not carry the business status failed (stated for a request quoted
\* OneCost whose engine succeeded).
C23_PersistenceFailureIsNotAnOutcome ==
    \A r \in Requests :
        ( /\ pc[r] = "raised"
          /\ local[r].total_cost = OneCost
          /\ local[r].success ) =>
            predictions[local[r].pred_id].status # "failed"

\* C26: the ledger is append-only: in every step, every transaction that
\* exists before the step exists after it under the same id, with the same
\* user_id, amount and prediction_id; no operation changes or deletes one.
C26_LedgerAppendOnly ==
    [][\A i \in DOMAIN transactions :
            /\ i \in DOMAIN transactions'
            /\ transactions'[i] = transactions[i]]_vars

\* two transactions have been added, the second to a ledger that held the first
C26_Witness ==
    /\ Len(transactions) = 2
    /\ transactions[1].prediction_id # transactions[2].prediction_id

\* C27: the query operations (balance, list of predictions, prediction by
\* uuid, transaction history) leave all balances, tiers, predictions and
\* transactions unchanged: the step that answers a read changes none of
\* them, whatever the handlers of the POSTs have written so far.
C27_QueriesChangeNothing ==
    [][\A r \in Requests :
            (pc[r] = "idle" /\ pc'[r] = "answered") =>
                /\ balance' = balance
                /\ models_active' = models_active
                /\ transactions' = transactions
                /\ Len(predictions') = Len(predictions)
                /\ \A p \in DOMAIN predictions :
                        /\ predictions'[p].status = predictions[p].status
                        /\ predictions'[p].user_id = predictions[p].user_id
                        /\ predictions'[p].model_id = predictions[p].model_id
                        /\ predictions'[p].best_formula = predictions[p].best_formula
                        /\ IF predictions[p].status = "processing"
                           THEN predictions'[p].total_cost = "None"
                           ELSE predictions'[p].total_cost = predictions[p].total_cost
      ]_vars

\* a prediction that is still processing was read by its uuid while the
\* account of its key holds a balance
C27_Witness ==
    /\ response.endpoint = "prediction"
    /\ response.status = "ok"
    /\ \E p \in response.predictions :
          /\ p \in DOMAIN predictions
          /\ predictions[p].status = "processing"
          /\ balance[predictions[p].user_id] > 0

\* C22: a timeout of the external work ends with the prediction in status
\* failed, with no debit and no transaction: once the handler of a request
\* whose client timed out has ended, its prediction is failed, no balance was
\* written for it and no transaction references it (stated for a request
\* quoted OneCost whose engine run, after the timeout, succeeded).
C22_TimedOutIsFailedAndFree ==
    \A r \in gave_up :
        ( /\ pc[r] \in {"returned", "raised"}
          /\ local[r].total_cost = OneCost
          /\ local[r].success ) =>
            /\ predictions[local[r].pred_id].status = "failed"
            /\ ~local[r].wrote_balance
            /\ TransactionsOf(local[r].pred_id) = {}

\* the place of prediction p in the order of the debits
DebitRank(p) == CHOOSE i \in DOMAIN debit_order : debit_order[i] = p

\* C24: for a single account, the order in which the transactions are
\* created is the order in which their charges were settled: of two
\* transactions of one account, the one created first belongs to the
\* prediction that was debited first (stated for ordinary requests, quoted
\* OneCost, whose engine succeeded).
C24_LedgerInSettlementOrder ==
    (\A q \in Requests : Ordinary(q)) =>
        \A i, j \in DOMAIN transactions :
            ( /\ i < j
              /\ transactions[i].user_id = transactions[j].user_id ) =>
                DebitRank(transactions[i].prediction_id)
                    < DebitRank(transactions[j].prediction_id)

\* C25: list_by_user(account) returns exactly the transactions of that
\* account, most recent first: each of them once and no other, and of any two
\* entries of the result the one created later (the greater row id) comes
\* earlier.
C25_HistoryMostRecentFirst ==
    history.user_id # NoUser =>
        /\ {history.rows[i] : i \in DOMAIN history.rows}
                = list_by_user(transactions, history.user_id)
        /\ \A i, j \in DOMAIN history.rows :
                i < j => history.rows[i] > history.rows[j]

\* C29: the tier used to quote the request, and recorded as its model_id, is
\* the tier the request names in run_config, and NoTierAvailable is reported
\* when no such tier is found: the step that resolves the tier of a request
\* whose run_config names an active tier gives that tier and the cost at its
\* prices, and gives NoTierAvailable when run_config names no active tier.
C29_QuotedTierIsRequestedTier ==
    [][(~lookup.done /\ lookup'.done) =>
            LET requested == get_by_name(lookup.run_config) IN
            IF requested \in ActiveModels
            THEN /\ lookup'.error = "none"
                 /\ lookup'.model_id = requested
                 /\ lookup'.total_cost =
                        calculate_cost(base_price(requested),
                                       epoch_price(requested), lookup.epochs)
            ELSE lookup'.error = "NoTierAvailable"]_vars

\* C30: after provisioning, exactly one pricing tier is marked active: the
\* step of initialize_sqlite_database leaves one active tier.
C30_ProvisioningLeavesOneActiveTier ==
    [][(~provisioned /\ provisioned') =>
            Cardinality({m \in ModelIds : models_active'[m]}) = 1]_vars

\* C28: an account is created on first contact with the default starting
\* balance, and only then: the step that creates an unknown user gives it
\* DEFAULT_CREDITS, and no step of a get_or_create_user call changes the
\* credits of a user that exists, however the calls of get_or_create_user,
\* add_credits and spend_credits interleave.
C28_CreatedOnceNeverReset ==
    [][\A id \in TelegramIds :
            /\ (~users[id].exists /\ users'[id].exists) =>
                    users'[id].credits = DEFAULT_CREDITS
            /\ users[id].exists =>
                    /\ users'[id].exists
                    /\ \A t \in BotThreads :
                          ( /\ threads'[t] # threads[t]
                            /\ threads'[t].op = "get_or_create_user" ) =>
                                users'[id].credits = users[id].credits
      ]_vars

\* C38: settling a prediction for account A changes only the balance of A
\* and only adds records owned by A: in every step of the handler of a
\* request made with the key of A, the balance of every other account and
\* every prediction and transaction of every other account stay as they
\* were, and a row the step adds is owned by A.
C38_SettlementTouchesOwnAccountOnly ==
    [][\A r \in Requests :
            pc'[r] # pc[r] =>
                LET A == local'[r].api_user IN
                /\ \A u \in UserIds : u # A => balance'[u] = balance[u]
                /\ \A i \in DOMAIN transactions' :
                        IF i \in DOMAIN transactions
                        THEN transactions[i].user_id # A =>
                                transactions'[i] = transactions[i]
                        ELSE transactions'[i].user_id = A
                /\ \A i \in DOMAIN predictions' :
                        IF i \in DOMAIN predictions
                        THEN predictions[i].user_id # A =>
                                predictions'[i] = predictions[i]
                        ELSE predictions'[i].user_id = A
                /\ Len(transactions') >= Len(transactions)
                /\ Len(predictions') >= Len(predictions)
      ]_vars

\* a prediction was settled and charged for each of two accounts, each of
\* which held a balance the other's settlement could have overwritten
C38_Witness ==
    \E r, q \in Requests :
        /\ local[r].api_user = 1 /\ local[q].api_user = 2
        /\ pc[r] = "returned" /\ pc[q] = "returned"
        /\ local[r].success /\ local[q].success
        /\ initial_balance[1] > 0 /\ initial_balance[2] > 0
        /\ Len(transactions) = 2

\* C31: every admitted prediction eventually reaches a terminal status,
\* completed or failed, when the engine call returns or raises and
\* persistence is available: a prediction row that exists is, then or later,
\* completed or failed.
C31_AdmittedReachesTerminal ==
    \A p \in Requests :
        (p \in DOMAIN predictions) ~>
            (p \in DOMAIN predictions
                /\ predictions[p].status \in {"completed", "failed"})

\* one admitted prediction ended completed and another, whose engine run
\* failed, ended failed
C31_Witness ==
    \E p, q \in DOMAIN predictions :
        /\ predictions[p].status = "completed"
        /\ predictions[q].status = "failed"
        /\ ~local[HandlerOf(q)].success

\* C35: spend_credits is an atomic conditional debit: the step of a call
\* with amount >= 0 takes amount from the credits of the user only if the
\* user exists and holds at least amount at that moment, and otherwise
\* returns None and leaves the credits, total_predictions and the credit
\* log as they were; however the calls interleave, no credits are negative.
C35_SpendIsAtomicConditionalDebit ==
    [][ /\ \A t \in BotThreads :
            ( /\ threads[t].pc = "idle"
              /\ threads'[t].op = "spend_credits"
              /\ threads'[t].amount >= 0 ) =>
                LET id == threads'[t].telegram_id
                    amount == threads'[t].amount IN
                IF users[id].exists /\ users[id].credits >= amount
                THEN /\ threads'[t].result = "user"
                     /\ users'[id].credits = users[id].credits - amount
                     /\ users'[id].credits >= 0
                ELSE /\ threads'[t].result = "None"
                     /\ users' = users
                     /\ credit_log' = credit_log
        /\ \A id \in TelegramIds : users'[id].credits >= 0 ]_vars

\* of two calls of spend_credits for one user, each for more than half of
\* what the user held, one was served and the other was refused
C35_Witness ==
    \E t, q \in BotThreads :
        /\ threads[t].op = "spend_credits" /\ threads[q].op = "spend_credits"
        /\ threads[t].telegram_id = threads[q].telegram_id
        /\ threads[t].amount > 0 /\ threads[q].amount > 0
        /\ threads[t].result = "user"
        /\ threads[q].result = "None"
        /\ users[threads[t].telegram_id].exists

RECURSIVE SumDeltas(_, _)
\* the sum of the deltas of the first n rows of the credit log that are of
\* the user telegram_id
SumDeltas(telegram_id, n) ==
    IF n = 0 THEN 0
    ELSE SumDeltas(telegram_id, n - 1)
            + (IF credit_log[n].telegram_id = telegram_id
               THEN credit_log[n].delta ELSE 0)

\* the calls of add_credits and spend_credits that returned the user
ServedCalls ==
    {t \in BotThreads : /\ threads[t].op \in {"add_credits", "spend_credits"}
                        /\ threads[t].result = "user"}

\* the user was created at most once: at most one call of get_or_create_user
\* was made, next to the calls of add_credits and spend_credits
OnlyAddsAndSpends ==
    Cardinality({t \in BotThreads : threads[t].op = "get_or_create_user"}) <= 1

C36_InitializedExactlyOnce == service.loads <= 1

\* C32: no lock is held while the long-running costed work executes: a
\* handler that waits for create_prediction does not hold the UserService
\* lock; the lock is held only around the reads and changes of the users.
C32_NoLockAcrossPrediction ==
    \A c \in Chats : chat[c].pc = "calling" => lock # c

\* while one handler waits for its prediction, another holds the lock for
\* its own debit
C32_Witness ==
    \E c, d \in Chats :
        /\ c # d
        /\ chat[c].pc = "calling"
        /\ chat[d].pc = "spending"
        /\ lock = d

\* C33: in the bot, a prediction whose returned status is failed does not
\* debit the credits of the user: when process_prediction has handled a
\* failed result, and no other handler has run, the user holds the credits
\* held before the request.
C33_FailedDoesNotDebit ==
    \A c \in Chats :
        ( /\ chat[c].pc = "done"
          /\ chat[c].status = "failed"
          /\ \A d \in Chats : d # c => chat[d].pc = "idle" ) =>
            users[chat[c].telegram_id].credits = chat[c].credits_before

\* C34: in the bot, for every configuration and every offered epochs count,
\* the price shown on the button the user pressed is the amount of credits
\* process_prediction debits for that configuration and epochs count.
C34_ShownPriceIsDebited ==
    \A c \in Chats :
        chat[c].spent =>
            /\ chat[c].shown = chat[c].total_cost
            /\ chat[c].shown = prediction_cost(chat[c].config, chat[c].epochs)

====
